---- MODULE Spec2Model ----
(***************************************************************************)
(* Model of the AI-Scanner document analysis pipeline                      *)
(* (src/gemini_analyzer.py, class GeminiAnalyzer), with the part of the    *)
(* GUI (src/main.py) that signals a reset while an analysis is running.    *)
(*                                                                         *)
(* Texts are sequences of characters.  Numbers that are floats in the      *)
(* program (scores, probabilities) are integers counted in hundredths.     *)
(***************************************************************************)
EXTENDS Integers, Sequences, FiniteSets, TLC

\* ------------------------------------------------------------------------
\* Bounds of the model
\* ------------------------------------------------------------------------

\* longest text handed to the chunker on its own
MaxTextLen == 6

\* largest window size (chunk_size) tried
MaxW == 4

\* longest document handed to analyze_document
MaxDocLen == 4

\* largest window size analyze_document is run with
MaxDocW == 2

\* iterations of the chunker's loop followed when it does not terminate
MaxLoop == 4

\* longest list of window records handed to the aggregator
MaxRecords == 2

\* most runs of equal characters in a scanned text
MaxRuns == 2

\* the most windows of a run whose analysis failed
MaxFailed == 1

\* the most analyses started in the window
MaxStarts == 2

\* ------------------------------------------------------------------------
\* Program constants
\* ------------------------------------------------------------------------

\* self.max_retries
max_retries == 3

\* self.retry_delay_base
retry_delay_base == 2

\* ------------------------------------------------------------------------
\* Python helpers
\* ------------------------------------------------------------------------

Min(a, b) == IF a <= b THEN a ELSE b

Max(a, b) == IF a >= b THEN a ELSE b

\* the characters texts are made of
Alphabet == {"a", "b"}

\* all texts of length 0..n
Texts(n) == UNION {[1..k -> Alphabet] : k \in 0..n}

\* a slice bound as Python normalises it: negative counts from the end
PyIndex(i, n) == IF i < 0 THEN Max(n + i, 0) ELSE Min(i, n)

\* s[i:j]
Slice(s, i, j) ==
    LET a == PyIndex(i, Len(s))
        b == PyIndex(j, Len(s))
    IN  IF a >= b THEN <<>> ELSE SubSeq(s, a + 1, b)

\* ------------------------------------------------------------------------
\* Values: Python and JSON values carry their type
\* ------------------------------------------------------------------------

\* 1.0 counted in thousandths
One == 1000

\* the tolerance 0.01 of the probability sum, in thousandths
Tolerance == 10

Num(n) == [ty |-> "num", n |-> n]

Str(x) == [ty |-> "str", s |-> x]

Bool(b) == [ty |-> "bool", b |-> b]

Null == [ty |-> "null"]

List(l) == [ty |-> "list", items |-> l]

Dict(d) == [ty |-> "dict", d |-> d]

\* a fraction of thousandths: the result of a float division
Rat(num, den) == [ty |-> "rat", num |-> num, den |-> den]

\* d.get(k, default) on a dict held as a function from keys to values
Get(d, k, default) == IF k \in DOMAIN d THEN d[k] ELSE default

\* d.update(u)
Update(d, u) == u @@ d

\* bool(v) of a value
Truthy(v) ==
    CASE v.ty = "bool" -> v.b
      [] v.ty = "num"  -> v.n # 0
      [] v.ty = "str"  -> v.s # ""
      [] v.ty = "list" -> v.items # <<>>
      [] v.ty = "dict" -> DOMAIN v.d # {}
      [] v.ty = "rat"  -> v.num # 0
      [] OTHER         -> FALSE

\* the outcome of a call: a value returned, or an exception raised
Return(v) == [raised |-> FALSE, value |-> v]

Raise(msg) == [raised |-> TRUE, error |-> msg]

\* FailureRecord with the reason dropped
FailureRecordNoReason(msg) ==
    [success |-> Bool(FALSE), error |-> Str(""),
     confidence_score |-> Num(0), is_ai_generated |-> Bool(FALSE)]

\* the failure record _analyze_single_chunk, _analyze_with_chunks and
\* analyze_document build (gemini_analyzer.py lines 192-197, 138-143, 98-103)
FailureRecord(msg) ==
    [success |-> Bool(FALSE), error |-> Str(msg),
     confidence_score |-> Num(0), is_ai_generated |-> Bool(FALSE)]

\* result.get('success')
Succeeded(r) == Truthy(Get(r, "success", Null))

\* ------------------------------------------------------------------------
\* The invisible-character report handed to the analyzer (unicode_analysis)
\* ------------------------------------------------------------------------

\* no report: unicode_analysis = None
ReportNone == [kind |-> "None", total_invisible_count |-> 0]

\* the empty dict {}
ReportEmpty == [kind |-> "empty", total_invisible_count |-> 0]

\* a scanner report with the given total_invisible_count
ReportDict(n) == [kind |-> "dict", total_invisible_count |-> n]

Reports == {ReportNone, ReportEmpty, ReportDict(0), ReportDict(2)}

\* ------------------------------------------------------------------------
\* ChunkAnalyzer, prompt: GeminiAnalyzer._create_analysis_prompt
\* ------------------------------------------------------------------------

\* The answer-format template (lines 227-246) is an f-string whose JSON
\* braces are not doubled, so Python reads them as replacement fields: the
\* outer field is the string "confidence_score" with everything up to the
\* closing brace as its format spec, and inside that spec the braces of
\* text_metrics are a nested field, the string "sentence_uniformity" with
\* this format spec.
MetricsFieldSpec ==
    " \"low/medium/high\", \"vocabulary_complexity\": \"low/medium/high\", \"emotional_expression\": \"low/medium/high\" "

\* format(<str>, spec): of the specs the template holds, str.__format__
\* accepts the empty one only; any other raises ValueError
StrFormatAccepts(spec) == spec = ""

\* InvisibleSection for every report that is not empty
InvisibleSectionAnyReport(unicode_analysis) ==
    unicode_analysis.kind = "dict"

\* lines 216-217: whether the section on invisible characters is appended
\* to the prompt: `unicode_analysis and
\* unicode_analysis.get('total_invisible_count', 0) > 0`
InvisibleSection(unicode_analysis) ==
    /\ unicode_analysis.kind = "dict"
    /\ unicode_analysis.total_invisible_count > 0

\* the prompt, or the exception its construction raises
CreateAnalysisPrompt(t, unicode_analysis, W) ==
    LET invisible == InvisibleSection(unicode_analysis)
    IN  IF ~StrFormatAccepts(MetricsFieldSpec)
        THEN Raise("Invalid format specifier")
        ELSE Return([invisible_section |-> invisible,
                     invisible_count |->
                         IF invisible
                         THEN unicode_analysis.total_invisible_count
                         ELSE 0,
                     text |-> Slice(t, 0, W)])

\* ------------------------------------------------------------------------
\* ClassificationPort: self.client.models.generate_content
\* ------------------------------------------------------------------------

\* A response text is a sequence of tokens: commentary, the two braces, and
\* "key": value members (a member stands for its whole text, a nested
\* object included; the commas between members are left out).
Junk == [t |-> "junk"]

Open == [t |-> "{"]

Close == [t |-> "}"]

Pair(k, v) == [t |-> "pair", k |-> k, v |-> v]

\* what one call of the port does: it raises, it returns no response object,
\* or it returns a response with a (possibly empty) text
PortRaises == [kind |-> "raise"]

PortNone == [kind |-> "none"]

PortText(tokens) == [kind |-> "response", text |-> tokens]

\* ------------------------------------------------------------------------
\* ChunkAnalyzer, retry loop: GeminiAnalyzer._make_robust_api_call
\* ------------------------------------------------------------------------

RECURSIVE Pow(_, _)
Pow(b, e) == IF e = 0 THEN 1 ELSE b * Pow(b, e - 1)

\* `response and response.text`
NonEmptyResponse(outcome) == outcome.kind = "response" /\ outcome.text # <<>>

\* The for loop from `attempt` on; script[k] is what the port does on the
\* k-th call.  calls counts the port calls made, waits lists the sleeps.
RECURSIVE RobustLoop(_, _, _, _)
RobustLoop(script, attempt, calls, waits) ==
    IF attempt >= max_retries
    THEN [raised |-> FALSE, value |-> PortNone, calls |-> calls, waits |-> waits]
    ELSE LET outcome == script[attempt + 1]
             wait_time == Pow(retry_delay_base, attempt)
         IN  IF NonEmptyResponse(outcome)
             THEN [raised |-> FALSE, value |-> outcome,
                   calls |-> calls + 1, waits |-> waits]
             ELSE IF attempt < max_retries - 1
                  THEN RobustLoop(script, attempt + 1, calls + 1,
                                  Append(waits, wait_time))
                  ELSE [raised |-> TRUE,
                        error |-> "API-Call nach max_retries Versuchen fehlgeschlagen",
                        calls |-> calls + 1, waits |-> waits]

MakeRobustApiCall(script) == RobustLoop(script, 0, 0, <<>>)

\* ------------------------------------------------------------------------
\* ResponseValidator: GeminiAnalyzer._parse_api_response
\* ------------------------------------------------------------------------

\* response_text.find(tok): 0-based, -1 when absent
Find(s, tok) ==
    IF \E i \in 1..Len(s) : s[i].t = tok
    THEN (CHOOSE i \in 1..Len(s) :
              s[i].t = tok /\ \A j \in 1..(i - 1) : s[j].t # tok) - 1
    ELSE -1

\* response_text.rfind(tok)
RFind(s, tok) ==
    IF \E i \in 1..Len(s) : s[i].t = tok
    THEN (CHOOSE i \in 1..Len(s) :
              s[i].t = tok /\ \A j \in (i + 1)..Len(s) : s[j].t # tok) - 1
    ELSE -1

\* json.loads of a text that starts with "{" and ends with "}": an object
\* when everything between the braces is a member, JSONDecodeError otherwise
JsonLoads(s) ==
    IF /\ Len(s) >= 2
       /\ s[1].t = "{"
       /\ s[Len(s)].t = "}"
       /\ \A i \in 2..(Len(s) - 1) : s[i].t = "pair"
    THEN LET keys == {s[i].k : i \in 2..(Len(s) - 1)}
             last(k) == CHOOSE i \in 2..(Len(s) - 1) :
                            /\ s[i].k = k
                            /\ \A j \in (i + 1)..(Len(s) - 1) : s[j].k # k
         IN  Return([k \in keys |-> s[last(k)].v])
    ELSE Raise("JSONDecodeError")

\* the strings float() converts, with their values
Numerals == [s \in {"0.7", "1.5"} |-> IF s = "0.7" THEN 7 * (One \div 10)
                                       ELSE One + One \div 2]

\* float(v)
Float(v) ==
    CASE v.ty = "num"  -> Return(v.n)
      [] v.ty = "bool" -> Return(IF v.b THEN One ELSE 0)
      [] v.ty = "str"  -> IF v.s \in DOMAIN Numerals
                          THEN Return(Numerals[v.s])
                          ELSE Raise("could not convert string to float")
      [] OTHER         -> Raise("float() argument")

\* max(0.0, min(1.0, x))
Clamp(x) == Max(0, Min(One, x))

Abs(x) == IF x < 0 THEN -x ELSE x

required_fields == {"confidence_score", "is_ai_generated", "ai_probability"}

\* NormalizeResult without the re-derivation of human_probability
NormalizeResultNoRederive(result) ==
    LET conf == Float(Get(result, "confidence_score", Num(One \div 2)))
        ai == Float(Get(result, "ai_probability", Num(One \div 2)))
    IN  IF conf.raised \/ ai.raised
        THEN Raise("Response-Validierung fehlgeschlagen")
        ELSE LET c == Clamp(conf.value)
                 a == Clamp(ai.value)
                 human == Float(Get(result, "human_probability", Num(One - a)))
             IN  IF human.raised
                 THEN Raise("Response-Validierung fehlgeschlagen")
                 ELSE Return(Update(result,
                                 [confidence_score |-> Num(c),
                                  ai_probability |-> Num(a),
                                  human_probability |-> Num(Clamp(human.value))]))

\* lines 296-306: the numeric fields normalised
NormalizeResult(result) ==
    LET conf == Float(Get(result, "confidence_score", Num(One \div 2)))
        ai == Float(Get(result, "ai_probability", Num(One \div 2)))
    IN  IF conf.raised \/ ai.raised
        THEN Raise("Response-Validierung fehlgeschlagen")
        ELSE LET c == Clamp(conf.value)
                 a == Clamp(ai.value)
                 human == Float(Get(result, "human_probability", Num(One - a)))
             IN  IF human.raised
                 THEN Raise("Response-Validierung fehlgeschlagen")
                 ELSE LET h == Clamp(human.value)
                          total_prob == a + h
                          h2 == IF Abs(total_prob - One) > Tolerance
                                THEN One - a ELSE h
                      IN  Return(Update(result,
                                 [confidence_score |-> Num(c),
                                  ai_probability |-> Num(a),
                                  human_probability |-> Num(h2)]))

\* the validated dict, or the ValueError the function raises
ParseApiResponse(response_text) ==
    LET json_start == Find(response_text, "{")
        json_end == RFind(response_text, "}") + 1
    IN  IF json_start = -1 \/ json_end <= json_start
        THEN Raise("Response-Validierung fehlgeschlagen: Keine gueltige JSON-Struktur gefunden")
        ELSE LET loaded == JsonLoads(Slice(response_text, json_start, json_end))
             IN  IF loaded.raised
                 THEN Raise("Ungueltige JSON in API-Response")
                 ELSE IF required_fields \ DOMAIN loaded.value # {}
                      THEN Raise("Response-Validierung fehlgeschlagen: Fehlende Pflichtfelder")
                      ELSE NormalizeResult(loaded.value)

\* ------------------------------------------------------------------------
\* ChunkAnalyzer: GeminiAnalyzer._analyze_single_chunk
\* ------------------------------------------------------------------------

\* The record the function returns, with the port calls and the sleeps the
\* invocation made, and whether the prompt under construction got the
\* section on invisible characters.  Every exception of the body ends in the failure record.
AnalyzeSingleChunk(t, unicode_analysis, W, script) ==
    LET prompt == CreateAnalysisPrompt(t, unicode_analysis, W)
    IN  IF prompt.raised
        THEN [result |-> FailureRecord(prompt.error), calls |-> 0, waits |-> <<>>,
              invisible_section |-> InvisibleSection(unicode_analysis)]
        ELSE LET call == MakeRobustApiCall(script)
             IN  IF call.raised
                 THEN [result |-> FailureRecord(call.error),
                       calls |-> call.calls, waits |-> call.waits,
                       invisible_section |-> InvisibleSection(unicode_analysis)]
                 ELSE IF call.value.kind # "response"
                 THEN [result |-> FailureRecord("'NoneType' object has no attribute 'text'"),
                       calls |-> call.calls, waits |-> call.waits,
                       invisible_section |-> InvisibleSection(unicode_analysis)]
                 ELSE LET parsed == ParseApiResponse(call.value.text)
                      IN  IF parsed.raised
                          THEN [result |-> FailureRecord(parsed.error),
                                calls |-> call.calls, waits |-> call.waits,
                       invisible_section |-> InvisibleSection(unicode_analysis)]
                          ELSE [result |->
                                    Update(parsed.value,
                                           [success |-> Bool(TRUE),
                                            text_length |-> Num(Len(t)),
                                            analysis_timestamp |-> Str("time.time()"),
                                            model_used |-> Str("gemini-2.0-flash")]),
                                calls |-> call.calls, waits |-> call.waits,
                       invisible_section |-> InvisibleSection(unicode_analysis)]

\* ------------------------------------------------------------------------
\* ResultAggregator: GeminiAnalyzer._aggregate_text_metrics
\* ------------------------------------------------------------------------

metric_names == {"sentence_uniformity", "vocabulary_complexity", "emotional_expression"}

\* the keys of counts in insertion order
categories == <<"low", "medium", "high">>

\* the number of elements of seq equal to v
RECURSIVE Count(_, _)
Count(seq, v) ==
    IF seq = <<>> THEN 0
    ELSE (IF Head(seq) = v THEN 1 ELSE 0) + Count(Tail(seq), v)

\* MostFrequent with ties going to the last key of counts
MostFrequentLastWins(values) ==
    LET cnt(k) == Count(values, categories[k])
        best == CHOOSE k \in 1..Len(categories) :
                    /\ \A j \in 1..Len(categories) : cnt(j) <= cnt(k)
                    /\ \A j \in (k + 1)..Len(categories) : cnt(j) < cnt(k)
    IN  categories[best]

\* max(counts, key=counts.get): the first key, in insertion order, whose
\* count no other key exceeds
MostFrequent(values) ==
    LET cnt(k) == Count(values, categories[k])
        best == CHOOSE k \in 1..Len(categories) :
                    /\ \A j \in 1..Len(categories) : cnt(j) <= cnt(k)
                    /\ \A j \in 1..(k - 1) : cnt(j) < cnt(k)
    IN  categories[best]

\* the values one metric takes over the chunks, in chunk order (lines 388-393)
RECURSIVE MetricValues(_, _)
MetricValues(chunk_results, name) ==
    IF chunk_results = <<>> THEN <<>>
    ELSE LET text_metrics == Get(Head(chunk_results), "text_metrics", Dict(<<>>))
             value == Get(text_metrics.d, name, Str("medium"))
         IN  (IF value.ty = "str" /\ value.s \in {"low", "medium", "high"}
              THEN <<value.s>> ELSE <<>>)
             \o MetricValues(Tail(chunk_results), name)

\* the aggregated metrics, or the AttributeError of a text_metrics that is
\* no dict
AggregateTextMetrics(chunk_results) ==
    IF \E i \in 1..Len(chunk_results) :
           Get(chunk_results[i], "text_metrics", Dict(<<>>)).ty # "dict"
    THEN Raise("object has no attribute 'get'")
    ELSE Return([name \in metric_names |->
                    LET values == MetricValues(chunk_results, name)
                    IN  IF values # <<>> THEN MostFrequent(values) ELSE "medium"])

\* ------------------------------------------------------------------------
\* ResultAggregator: GeminiAnalyzer._aggregate_chunk_results
\* ------------------------------------------------------------------------

RECURSIVE SumSeq(_)
SumSeq(seq) == IF seq = <<>> THEN 0 ELSE Head(seq) + SumSeq(Tail(seq))

\* list(dict.fromkeys(seq)): duplicates dropped, first-seen order kept
RECURSIVE Dedupe(_, _)
Dedupe(seq, seen) ==
    IF seq = <<>> THEN <<>>
    ELSE IF Head(seq) \in seen THEN Dedupe(Tail(seq), seen)
    ELSE <<Head(seq)>> \o Dedupe(Tail(seq), seen \cup {Head(seq)})

\* the lists under `key` of all chunks, concatenated; a value that is no
\* list is skipped (lines 340-347)
RECURSIVE Collect(_, _)
Collect(chunk_results, key) ==
    IF chunk_results = <<>> THEN <<>>
    ELSE LET v == Get(Head(chunk_results), key, List(<<>>))
         IN  (IF v.ty = "list" THEN v.items ELSE <<>>)
             \o Collect(Tail(chunk_results), key)

\* dict.fromkeys raises TypeError on an unhashable element
AllHashable(seq) == \A i \in 1..Len(seq) : seq[i].ty \notin {"list", "dict"}

\* WeightedAiProb without the weights
WeightedAiProbUnweighted(confidences, ai_probs) ==
    Rat(SumSeq(ai_probs), Len(ai_probs))

\* weighted_ai_prob of lines 328-334: the confidence-weighted mean, the plain
\* mean when the weights sum to 0
WeightedAiProb(confidences, ai_probs) ==
    LET total_weight == SumSeq(confidences)
    IN  IF total_weight > 0
        THEN Rat(SumSeq([i \in 1..Len(ai_probs) |->
                            ai_probs[i] * confidences[i]]),
                 total_weight)
        ELSE Rat(SumSeq(ai_probs), Len(ai_probs))

\* avg_confidence of lines 328-334
AvgConfidence(confidences) ==
    IF SumSeq(confidences) > 0
    THEN Rat(SumSeq(confidences), Len(confidences))
    ELSE Rat(One, 2)

\* IsAiGenerated with 0.5 counted as AI
IsAiGeneratedFromHalf(weighted_ai_prob) ==
    2 * weighted_ai_prob.num >= One * weighted_ai_prob.den

\* weighted_ai_prob > 0.5
IsAiGenerated(weighted_ai_prob) ==
    2 * weighted_ai_prob.num > One * weighted_ai_prob.den

\* the document record, or the exception the function raises
AggregateChunkResults(chunk_results, original_text) ==
    IF chunk_results = <<>>
    THEN Return([success |-> Bool(FALSE),
                 error |-> Str("Keine Chunk-Ergebnisse zum Aggregieren")])
    ELSE
    LET n == Len(chunk_results)
        confidences == [i \in 1..n |->
                           Get(chunk_results[i], "confidence_score", Num(0)).n]
        ai_probs == [i \in 1..n |->
                        Get(chunk_results[i], "ai_probability", Num(One \div 2)).n]
        weighted_ai_prob == WeightedAiProb(confidences, ai_probs)
        avg_confidence == AvgConfidence(confidences)
        all_indicators == Collect(chunk_results, "specific_indicators")
        all_suspicious_phrases == Collect(chunk_results, "suspicious_phrases")
        reasoning_parts ==
            SelectSeq([i \in 1..n |-> Get(chunk_results[i], "reasoning", Str(""))],
                      Truthy)
        metrics == AggregateTextMetrics(chunk_results)
    IN  IF ~AllHashable(all_indicators) \/ ~AllHashable(all_suspicious_phrases)
        THEN Raise("unhashable type")
        ELSE IF metrics.raised THEN metrics
        ELSE Return(
            [success |-> Bool(TRUE),
             confidence_score |-> avg_confidence,
             is_ai_generated |-> Bool(IsAiGenerated(weighted_ai_prob)),
             ai_probability |-> weighted_ai_prob,
             human_probability |->
                 Rat(One * weighted_ai_prob.den - weighted_ai_prob.num,
                     weighted_ai_prob.den),
             reasoning |->
                 [count |-> n,
                  first |-> IF reasoning_parts # <<>> THEN Head(reasoning_parts)
                            ELSE Str("Weitere Details in den Indikatoren.")],
             specific_indicators |->
                 List(Slice(Dedupe(all_indicators, {}), 0, 10)),
             suspicious_phrases |->
                 List(Slice(Dedupe(all_suspicious_phrases, {}), 0, 5)),
             text_metrics |-> metrics.value,
             analysis_summary |->
                 [total_chunks_analyzed |-> n,
                  successful_chunks |->
                      Cardinality({i \in 1..n : Succeeded(chunk_results[i])}),
                  text_length |-> Len(original_text),
                  analysis_method |-> "chunked_with_overlap",
                  average_chunk_confidence |-> avg_confidence],
             analysis_timestamp |-> Str("time.time()"),
             model_used |-> Str("gemini-2.0-flash")])

\* ------------------------------------------------------------------------
\* InvisibleCharScanner: PDFProcessor._analyze_unicode_characters
\* ------------------------------------------------------------------------

\* A text is held as its runs: <<[cp |-> c, n |-> k], ...>> is k characters
\* of code point c, followed by the next run.  Every n is at least 1.

\* self.invisible_chars, in insertion order (U+200B, U+200C, U+200D, U+2060,
\* U+00AD, U+200E, U+200F, U+2028, U+2029, U+FEFF)
invisible_chars ==
    <<[cp |-> 8203, name |-> "Zero-Width Space"],
      [cp |-> 8204, name |-> "Zero-Width Non-Joiner"],
      [cp |-> 8205, name |-> "Zero-Width Joiner"],
      [cp |-> 8288, name |-> "Word Joiner"],
      [cp |-> 173, name |-> "Soft Hyphen"],
      [cp |-> 8206, name |-> "Left-to-Right Mark"],
      [cp |-> 8207, name |-> "Right-to-Left Mark"],
      [cp |-> 8232, name |-> "Line Separator"],
      [cp |-> 8233, name |-> "Paragraph Separator"],
      [cp |-> 65279, name |-> "Byte Order Mark"]>>

\* 0xE000 and 0xF8FF
PrivateUseFirst == 57344

PrivateUseLast == 63743

\* the thresholds of the suspicious patterns: 50 characters, a ratio of
\* 0.001 (in thousandths), 20 zero-width spaces
CountThreshold == 50

RatioThreshold == 1

WatermarkThreshold == 20

\* len(text)
RECURSIVE TextLength(_)
TextLength(runs) ==
    IF runs = <<>> THEN 0 ELSE Head(runs).n + TextLength(Tail(runs))

\* text.count(char)
RECURSIVE CountChar(_, _)
CountChar(runs, cp) ==
    IF runs = <<>> THEN 0
    ELSE (IF Head(runs).cp = cp THEN Head(runs).n ELSE 0)
         + CountChar(Tail(runs), cp)

\* [i for i, c in enumerate(text) if c == char][:10]
RECURSIVE Positions(_, _, _)
Positions(runs, cp, offset) ==
    IF runs = <<>> THEN <<>>
    ELSE Slice((IF Head(runs).cp = cp
                THEN [j \in 1..Min(Head(runs).n, 10) |-> offset + j - 1]
                ELSE <<>>)
               \o Positions(Tail(runs), cp, offset + Head(runs).n), 0, 10)

\* IsPrivateUse with the range running up to U+FEFF
IsPrivateUseWide(cp) == PrivateUseFirst <= cp /\ cp <= 65279

\* 0xE000 <= code_point <= 0xF8FF
IsPrivateUse(cp) == PrivateUseFirst <= cp /\ cp <= PrivateUseLast

\* private_use_count after the loop of lines 185-189
RECURSIVE PrivateUseCount(_)
PrivateUseCount(runs) ==
    IF runs = <<>> THEN 0
    ELSE (IF IsPrivateUse(Head(runs).cp) THEN Head(runs).n ELSE 0)
         + PrivateUseCount(Tail(runs))

\* sum(d.values()) of a dict d with the keys S
RECURSIVE SumValues(_, _)
SumValues(d, S) ==
    IF S = {} THEN 0
    ELSE LET k == CHOOSE x \in S : TRUE
         IN  d[k] + SumValues(d, S \ {k})

\* SuspiciousPatterns with thresholds that are not strict
SuspiciousPatternsNotStrict(total_invisible, ratio, found) ==
    (IF total_invisible >= CountThreshold
     THEN <<"Sehr hohe Anzahl unsichtbarer Zeichen">> ELSE <<>>)
    \o (IF ratio.num >= RatioThreshold * ratio.den
        THEN <<"Hohe Dichte unsichtbarer Zeichen">> ELSE <<>>)
    \o (IF "Zero-Width Space" \in DOMAIN found
           /\ found["Zero-Width Space"] >= WatermarkThreshold
        THEN <<"Verdacht auf AI-Wasserzeichen (Zero-Width Spaces)">>
        ELSE <<>>)

\* suspicious_patterns after lines 202-211
SuspiciousPatterns(total_invisible, ratio, found) ==
    (IF total_invisible > CountThreshold
     THEN <<"Sehr hohe Anzahl unsichtbarer Zeichen">> ELSE <<>>)
    \o (IF ratio.num > RatioThreshold * ratio.den
        THEN <<"Hohe Dichte unsichtbarer Zeichen">> ELSE <<>>)
    \o (IF "Zero-Width Space" \in DOMAIN found
           /\ found["Zero-Width Space"] > WatermarkThreshold
        THEN <<"Verdacht auf AI-Wasserzeichen (Zero-Width Spaces)">>
        ELSE <<>>)

\* the report the function returns; invisibility_ratio is a fraction of
\* thousandths
AnalyzeUnicodeCharacters(runs) ==
    IF runs = <<>>
    THEN [invisible_characters_found |-> <<>>,
          character_positions |-> <<>>,
          total_invisible_count |-> 0,
          private_use_area_count |-> 0,
          suspicious_patterns |-> <<>>,
          text_length |-> 0,
          invisibility_ratio |-> Rat(0, 1)]
    ELSE
    LET known == {k \in 1..Len(invisible_chars) :
                     CountChar(runs, invisible_chars[k].cp) > 0}
        \* a later entry of the table overwrites an earlier one of its name
        entry(name) == CHOOSE k \in known :
                           /\ invisible_chars[k].name = name
                           /\ \A j \in known :
                                  invisible_chars[j].name = name => j <= k
        names == {invisible_chars[k].name : k \in known}
        private_use_count == PrivateUseCount(runs)
        pua == IF private_use_count > 0
               THEN {"Private Use Area Characters"} ELSE {}
        found == [name \in names \cup pua |->
                     IF name \in pua THEN private_use_count
                     ELSE CountChar(runs, invisible_chars[entry(name)].cp)]
        total_invisible == SumValues(found, DOMAIN found)
        ratio == Rat(total_invisible * One, TextLength(runs))
    IN  [invisible_characters_found |-> found,
         character_positions |->
             [name \in names |->
                 Positions(runs, invisible_chars[entry(name)].cp, 0)],
         total_invisible_count |-> total_invisible,
         private_use_area_count |-> private_use_count,
         suspicious_patterns |->
             SuspiciousPatterns(total_invisible, ratio, found),
         text_length |-> TextLength(runs),
         invisibility_ratio |-> ratio]

\* ------------------------------------------------------------------------
\* State
\* ------------------------------------------------------------------------

VARIABLES
    text,              \* the text under analysis (argument text)
    chunk_size,        \* self.chunk_size
    chunk_overlap,     \* self.chunk_overlap
    ck,                \* _create_overlapping_chunks called on its own: its
                       \* locals start and chunks, and whether it has returned
    unicode_analysis,  \* argument unicode_analysis of analyze_document
    progress_callback, \* argument progress_callback: "None" or "given"
    pc,                \* where analyze_document is: "idle", "start", "loop",
                       \* "done"
    chunks,            \* _analyze_with_chunks: chunks
    i,                 \* _analyze_with_chunks: the loop index
    chunk_results,     \* _analyze_with_chunks: chunk_results
    result,            \* the value analyze_document returned
    analyzed,          \* history: the windows (1-based) _analyze_single_chunk
                       \* was invoked on, in order
    window_results,    \* history: what each of these invocations returned
    port_calls,        \* history: the port calls made so far
    last_chunk,        \* history: the last _analyze_single_chunk invocation
    agg_inputs,        \* history: the lists _aggregate_chunk_results was given
    cb_log,            \* history: the messages the callback was invoked with
    cb_raised,         \* history: an invocation of the callback raised
    cancel_signalled,  \* history: _reset_analysis was confirmed during the run
    rv,                \* _parse_api_response called on its own: its argument
                       \* and what it returned or raised
    ag,                \* _aggregate_chunk_results called on its own: its
                       \* arguments and what it returned or raised
    sc,                \* _analyze_unicode_characters called on its own: its
                       \* argument and what it returned
    rl,                \* _make_robust_api_call called on its own: the loop
                       \* variable attempt, where the loop is, and the port
                       \* calls and sleeps so far
    gui                \* KIScannerApp: its attributes, its buttons, the
                       \* worker threads and the callbacks queued with
                       \* root.after

inputs == <<text, chunk_size, chunk_overlap, unicode_analysis, progress_callback>>

pipeline == <<pc, chunks, i, chunk_results, result, analyzed, window_results,
              port_calls, last_chunk, agg_inputs, cb_log, cb_raised>>

components == <<rv, ag, sc, rl, gui>>

vars == <<inputs, ck, pipeline, cancel_signalled, components>>

\* ------------------------------------------------------------------------
\* TextChunker: GeminiAnalyzer._create_overlapping_chunks
\* ------------------------------------------------------------------------

\* the locals on entry: chunks = [], start = 0
ChunkStart == [start |-> 0, chunks |-> <<>>, done |-> FALSE]

\* ChunkIter with the next window starting one character late
ChunkIterLateStart(t, W, O, st) ==
    IF ~(st.start < Len(t))
    THEN [st EXCEPT !.done = TRUE]
    ELSE LET end == Min(st.start + W, Len(t))
             appended == Append(st.chunks, Slice(t, st.start, end))
         IN  IF end >= Len(t)
             THEN [start |-> st.start, chunks |-> appended, done |-> TRUE]
             ELSE [start |-> end - O + 1, chunks |-> appended, done |-> FALSE]

\* ChunkIter with the loop entered while start <= len(text)
ChunkIterLoopLe(t, W, O, st) ==
    IF ~(st.start <= Len(t))
    THEN [st EXCEPT !.done = TRUE]
    ELSE LET end == Min(st.start + W, Len(t))
             appended == Append(st.chunks, Slice(t, st.start, end))
         IN  IF end >= Len(t)
             THEN [start |-> st.start, chunks |-> appended, done |-> TRUE]
             ELSE [start |-> end - O, chunks |-> appended, done |-> FALSE]

\* ChunkIter with a window one character too long
ChunkIterLong(t, W, O, st) ==
    IF ~(st.start < Len(t))
    THEN [st EXCEPT !.done = TRUE]
    ELSE LET end == Min(st.start + W + 1, Len(t))
             appended == Append(st.chunks, Slice(t, st.start, end))
         IN  IF end >= Len(t)
             THEN [start |-> st.start, chunks |-> appended, done |-> TRUE]
             ELSE [start |-> end - O, chunks |-> appended, done |-> FALSE]

\* ChunkIter with the next window starting where the last one ended
ChunkIterNoOverlap(t, W, O, st) ==
    IF ~(st.start < Len(t))
    THEN [st EXCEPT !.done = TRUE]
    ELSE LET end == Min(st.start + W, Len(t))
             appended == Append(st.chunks, Slice(t, st.start, end))
         IN  IF end >= Len(t)
             THEN [start |-> st.start, chunks |-> appended, done |-> TRUE]
             ELSE [start |-> end, chunks |-> appended, done |-> FALSE]

\* one evaluation of the while condition and, if it holds, one loop body
ChunkIter(t, W, O, st) ==
    IF ~(st.start < Len(t))
    THEN [st EXCEPT !.done = TRUE]
    ELSE LET end == Min(st.start + W, Len(t))
             chunk == Slice(t, st.start, end)
             appended == Append(st.chunks, chunk)
         IN  IF end >= Len(t)
             THEN [start |-> st.start, chunks |-> appended, done |-> TRUE]
             ELSE [start |-> end - O, chunks |-> appended, done |-> FALSE]

RECURSIVE ChunkRun(_, _, _, _)
ChunkRun(t, W, O, st) ==
    IF st.done THEN st ELSE ChunkRun(t, W, O, ChunkIter(t, W, O, st))

\* the list the function returns
CreateOverlappingChunks(t, W, O) == ChunkRun(t, W, O, ChunkStart).chunks

\* no _analyze_single_chunk invocation yet
NoChunk ==
    [index |-> 0, text |-> <<>>, report |-> ReportNone, script |-> <<>>,
     calls |-> 0, waits |-> <<>>, invisible_section |-> FALSE,
     result |-> FailureRecord("")]

\* analyze_document has not returned
NoResult == [returned |-> Bool(FALSE)]

\* a function that is not called on its own in this run
NotCalled == [done |-> FALSE]

ComponentsIdle ==
    /\ rv = NotCalled
    /\ ag = NotCalled
    /\ sc = NotCalled
    /\ rl = NotCalled
    /\ gui = NotCalled

\* the pipeline's locals and histories before analyze_document is entered
PipelineReset ==
    /\ chunks = <<>>
    /\ i = 0
    /\ chunk_results = <<>>
    /\ result = NoResult
    /\ analyzed = <<>>
    /\ window_results = <<>>
    /\ port_calls = 0
    /\ last_chunk = NoChunk
    /\ agg_inputs = <<>>
    /\ cb_log = <<>>
    /\ cb_raised = FALSE
    /\ cancel_signalled = FALSE

\* the chunker called on its own, on any text and any valid (W, O)
InitChunk ==
    /\ text \in Texts(MaxTextLen)
    /\ chunk_size \in 1..MaxW
    /\ chunk_overlap \in 0..(chunk_size - 1)
    /\ ck = ChunkStart
    /\ unicode_analysis = ReportNone
    /\ progress_callback = "None"
    /\ pc = "idle"
    /\ PipelineReset
    /\ ComponentsIdle

ChunkerStep ==
    /\ ~ck.done
    /\ ck' = ChunkIter(text, chunk_size, chunk_overlap, ck)
    /\ UNCHANGED <<components, inputs, pipeline, cancel_signalled>>

NextChunk == ChunkerStep

SpecChunk == InitChunk /\ [][NextChunk]_vars

\* a configuration the chunker cannot work with: W <= 0 or O >= W
InvalidConfig(W, O) == W <= 0 \/ O >= W

\* the chunker called on its own with such a configuration: __init__ and
\* _create_overlapping_chunks accept any chunk_size and chunk_overlap
InitChunkInvalid ==
    /\ text \in Texts(MaxTextLen)
    /\ chunk_size \in (0 - 1)..MaxW
    /\ chunk_overlap \in 0..(MaxW + 1)
    /\ InvalidConfig(chunk_size, chunk_overlap)
    /\ ck = ChunkStart
    /\ unicode_analysis = ReportNone
    /\ progress_callback = "None"
    /\ pc = "idle"
    /\ PipelineReset
    /\ ComponentsIdle

\* one more iteration of the while loop, followed for MaxLoop iterations
ChunkerStepInvalid ==
    /\ ~ck.done
    /\ Len(ck.chunks) < MaxLoop
    /\ ck' = ChunkIter(text, chunk_size, chunk_overlap, ck)
    /\ UNCHANGED <<components, inputs, pipeline, cancel_signalled>>

NextChunkInvalid == ChunkerStepInvalid

SpecChunkInvalid == InitChunkInvalid /\ [][NextChunkInvalid]_vars

\* ------------------------------------------------------------------------
\* DocumentAnalysisPipeline: GeminiAnalyzer.analyze_document and
\* GeminiAnalyzer._analyze_with_chunks
\* ------------------------------------------------------------------------

\* the document of n characters
DocText(n) == [k \in 1..n |-> IF k % 2 = 1 THEN "a" ELSE "b"]

\* the members of a complete answer
ValidMembers ==
    <<Pair("confidence_score", Num(900)), Pair("is_ai_generated", Bool(TRUE)),
      Pair("ai_probability", Num(800))>>

\* a complete answer whose text_metrics is a string and whose indicator is a
\* list
OddlyTypedText ==
    <<Open>> \o ValidMembers
             \o <<Pair("text_metrics", Str("uniform")),
                  Pair("specific_indicators", List(<<List(<<Str("x")>>)>>)),
                  Close>>

\* what the port may do on one call: raise, return an empty text, a text
\* without JSON, an object without ai_probability, a complete object inside
\* commentary, a complete object with fields of unexpected types
PortOutcomes ==
    {PortRaises,
     PortText(<<>>),
     PortText(<<Junk>>),
     PortText(<<Open>> \o SubSeq(ValidMembers, 1, 2) \o <<Close>>),
     PortText(<<Junk, Open>> \o ValidMembers \o <<Close, Junk>>),
     PortText(OddlyTypedText)}

\* what the port does on the successive calls made for one window: script[k]
\* answers the k-th call; a script ends with the first non-empty response,
\* after which the retry loop calls no more, or with the last permitted call
Scripts ==
    {s \in UNION {[1..n -> PortOutcomes] : n \in 1..max_retries} :
        /\ \A k \in 1..(Len(s) - 1) : ~NonEmptyResponse(s[k])
        /\ Len(s) < max_retries => NonEmptyResponse(s[Len(s)])}

\* whether an invocation of the callback may raise: only a callback that
\* was given is invoked
CallbackMayRaise == IF progress_callback = "given" THEN BOOLEAN ELSE {FALSE}

\* the messages the callback receives
MsgSingle == [kind |-> "Analysiere Dokument...", index |-> 0, total |-> 0]

\* MsgChunk with the loop index as it is, counted from 0
MsgChunkFromZero(k, n) ==
    [kind |-> "Analysiere Chunk", index |-> k - 1, total |-> n]

MsgChunk(k, n) == [kind |-> "Analysiere Chunk", index |-> k, total |-> n]

MsgAggregate == [kind |-> "Ergebnisse werden zusammengefuehrt...", index |-> 0, total |-> 0]

\* cb_log after `if progress_callback: progress_callback(msg)`
Notified(msg) ==
    IF progress_callback = "given" THEN Append(cb_log, msg) ELSE cb_log

\* the except branch of analyze_document (lines 95-103)
DocumentFailure(msg) == FailureRecord("Dokument-Analyse fehlgeschlagen: " \o msg)

\* the record of one _analyze_single_chunk invocation
ChunkRecord(k, t, report, script, a) ==
    [index |-> k, text |-> t, report |-> report, script |-> script,
     calls |-> a.calls, waits |-> a.waits,
     invisible_section |-> a.invisible_section, result |-> a.result]

Init ==
    /\ \E n \in 0..MaxDocLen : text = DocText(n)
    /\ chunk_size \in 1..MaxDocW
    /\ chunk_overlap \in 0..(chunk_size - 1)
    /\ ck = ChunkStart
    /\ unicode_analysis \in Reports
    /\ progress_callback \in {"None", "given"}
    /\ pc = "start"
    /\ PipelineReset
    /\ ComponentsIdle

\* AnalyzeShort without the except branch: a callback that raises leaves
\* analyze_document with no value returned
AnalyzeShortNoExcept ==
    /\ pc = "start"
    /\ Len(text) <= chunk_size
    /\ \E cb_fails \in CallbackMayRaise, script \in Scripts :
          LET a == AnalyzeSingleChunk(text, unicode_analysis, chunk_size, script)
          IN  /\ cb_log' = Notified(MsgSingle)
              /\ cb_raised' = cb_fails
              /\ IF cb_fails
                 THEN /\ result' = NoResult
                      /\ UNCHANGED <<analyzed, window_results, port_calls,
                                     last_chunk>>
                 ELSE /\ result' = Update(a.result,
                                          [analysis_method |-> Str("single_chunk")])
                      /\ analyzed' = Append(analyzed, 1)
                      /\ window_results' = Append(window_results, a.result)
                      /\ port_calls' = port_calls + a.calls
                      /\ last_chunk' = ChunkRecord(1, text, unicode_analysis,
                                                   script, a)
    /\ pc' = "done"
    /\ UNCHANGED <<components, inputs, ck, chunks, i, chunk_results,
                   agg_inputs, cancel_signalled>>

\* analyze_document, len(text) <= chunk_size: lines 82-89, with the except
\* branch of lines 95-103 when the callback raises
AnalyzeShort ==
    /\ pc = "start"
    /\ Len(text) <= chunk_size
    /\ \E cb_fails \in CallbackMayRaise, script \in Scripts :
          LET a == AnalyzeSingleChunk(text, unicode_analysis, chunk_size, script)
          IN  /\ cb_log' = Notified(MsgSingle)
              /\ cb_raised' = cb_fails
              /\ IF cb_fails
                 THEN /\ result' = DocumentFailure("callback")
                      /\ UNCHANGED <<analyzed, window_results, port_calls,
                                     last_chunk>>
                 ELSE /\ result' = Update(a.result,
                                          [analysis_method |-> Str("single_chunk")])
                      /\ analyzed' = Append(analyzed, 1)
                      /\ window_results' = Append(window_results, a.result)
                      /\ port_calls' = port_calls + a.calls
                      /\ last_chunk' = ChunkRecord(1, text, unicode_analysis,
                                                   script, a)
    /\ pc' = "done"
    /\ UNCHANGED <<components, inputs, ck, chunks, i, chunk_results,
                   agg_inputs, cancel_signalled>>

\* analyze_document, len(text) > chunk_size, up to the loop of
\* _analyze_with_chunks: lines 91-93 and 108-114
StartChunks ==
    /\ pc = "start"
    /\ Len(text) > chunk_size
    /\ chunks' = CreateOverlappingChunks(text, chunk_size, chunk_overlap)
    /\ chunk_results' = <<>>
    /\ i' = 0
    /\ pc' = "loop"
    /\ UNCHANGED <<components, inputs, ck, result, analyzed, window_results,
                   port_calls, last_chunk, agg_inputs, cb_log, cb_raised,
                   cancel_signalled>>

\* AnalyzeWindow with a loop that stops at the first window that fails
AnalyzeWindowStopsOnFailure ==
    /\ pc = "loop"
    /\ i < Len(chunks)
    /\ \E cb_fails \in CallbackMayRaise, script \in Scripts :
          LET chunk == chunks[i + 1]
              chunk_unicode_info == IF i = 0 THEN unicode_analysis ELSE ReportNone
              a == AnalyzeSingleChunk(chunk, chunk_unicode_info, chunk_size, script)
          IN  /\ cb_log' = Notified(MsgChunk(i + 1, Len(chunks)))
              /\ cb_raised' = (cb_raised \/ cb_fails)
              /\ IF cb_fails
                 THEN /\ result' = DocumentFailure("callback")
                      /\ pc' = "done"
                      /\ UNCHANGED <<i, chunk_results, analyzed, window_results,
                                     port_calls, last_chunk>>
                 ELSE /\ analyzed' = Append(analyzed, i + 1)
                      /\ window_results' = Append(window_results, a.result)
                      /\ port_calls' = port_calls + a.calls
                      /\ last_chunk' = ChunkRecord(i + 1, chunk, chunk_unicode_info,
                                                   script, a)
                      /\ chunk_results' =
                             IF Succeeded(a.result)
                             THEN Append(chunk_results, a.result)
                             ELSE chunk_results
                      /\ i' = IF Succeeded(a.result) THEN i + 1 ELSE Len(chunks)
                      /\ UNCHANGED <<result, pc>>
    /\ UNCHANGED <<components, inputs, ck, chunks, agg_inputs,
                   cancel_signalled>>

\* one pass of the loop of _analyze_with_chunks: lines 116-135.  A callback
\* that raises is outside the inner try: the exception leaves the loop and
\* ends in the except branch of analyze_document.
AnalyzeWindow ==
    /\ pc = "loop"
    /\ i < Len(chunks)
    /\ \E cb_fails \in CallbackMayRaise, script \in Scripts :
          LET chunk == chunks[i + 1]
              chunk_unicode_info == IF i = 0 THEN unicode_analysis ELSE ReportNone
              a == AnalyzeSingleChunk(chunk, chunk_unicode_info, chunk_size, script)
          IN  /\ cb_log' = Notified(MsgChunk(i + 1, Len(chunks)))
              /\ cb_raised' = (cb_raised \/ cb_fails)
              /\ IF cb_fails
                 THEN /\ result' = DocumentFailure("callback")
                      /\ pc' = "done"
                      /\ UNCHANGED <<i, chunk_results, analyzed, window_results,
                                     port_calls, last_chunk>>
                 ELSE /\ analyzed' = Append(analyzed, i + 1)
                      /\ window_results' = Append(window_results, a.result)
                      /\ port_calls' = port_calls + a.calls
                      /\ last_chunk' = ChunkRecord(i + 1, chunk, chunk_unicode_info,
                                                   script, a)
                      /\ chunk_results' =
                             IF Succeeded(a.result)
                             THEN Append(chunk_results, a.result)
                             ELSE chunk_results
                      /\ i' = i + 1
                      /\ UNCHANGED <<result, pc>>
    /\ UNCHANGED <<components, inputs, ck, chunks, agg_inputs,
                   cancel_signalled>>

\* FinishChunks without the `if not chunk_results` return: the aggregator is
\* handed whatever the loop collected
FinishChunksNoEmptyCheck ==
    /\ pc = "loop"
    /\ i >= Len(chunks)
    /\ \E cb_fails \in CallbackMayRaise :
          LET agg == AggregateChunkResults(chunk_results, text)
          IN  /\ cb_log' = Notified(MsgAggregate)
              /\ cb_raised' = (cb_raised \/ cb_fails)
              /\ IF cb_fails
                 THEN /\ result' = DocumentFailure("callback")
                      /\ UNCHANGED agg_inputs
                 ELSE /\ agg_inputs' = Append(agg_inputs, chunk_results)
                      /\ result' = IF agg.raised
                                   THEN DocumentFailure(agg.error)
                                   ELSE agg.value
    /\ pc' = "done"
    /\ UNCHANGED <<components, inputs, ck, chunks, i, chunk_results,
                   analyzed, window_results, port_calls, last_chunk,
                   cancel_signalled>>

\* _analyze_with_chunks after the loop: lines 137-149, with the except
\* branch of analyze_document when the callback or the aggregator raises
FinishChunks ==
    /\ pc = "loop"
    /\ i >= Len(chunks)
    /\ IF chunk_results = <<>>
       THEN /\ result' = FailureRecord("Keine erfolgreichen Chunk-Analysen")
            /\ UNCHANGED <<agg_inputs, cb_log, cb_raised>>
       ELSE \E cb_fails \in CallbackMayRaise :
               LET agg == AggregateChunkResults(chunk_results, text)
               IN  /\ cb_log' = Notified(MsgAggregate)
                   /\ cb_raised' = (cb_raised \/ cb_fails)
                   /\ IF cb_fails
                      THEN /\ result' = DocumentFailure("callback")
                           /\ UNCHANGED agg_inputs
                      ELSE /\ agg_inputs' = Append(agg_inputs, chunk_results)
                           /\ result' = IF agg.raised
                                        THEN DocumentFailure(agg.error)
                                        ELSE agg.value
    /\ pc' = "done"
    /\ UNCHANGED <<components, inputs, ck, chunks, i, chunk_results,
                   analyzed, window_results, port_calls, last_chunk,
                   cancel_signalled>>

\* KIScannerApp._reset_analysis confirmed while the analysis thread is alive
\* (main.py lines 548-566): the GUI is reset, the analyzer is told nothing
ResetAnalysis ==
    /\ pc \in {"start", "loop"}
    /\ ~cancel_signalled
    /\ cancel_signalled' = TRUE
    /\ UNCHANGED <<components, inputs, ck, pipeline>>

Next ==
    \/ AnalyzeShort
    \/ StartChunks
    \/ AnalyzeWindow
    \/ FinishChunks
    \/ ResetAnalysis

Spec == Init /\ [][Next]_vars

\* ------------------------------------------------------------------------
\* ResponseValidator called on its own: GeminiAnalyzer._parse_api_response
\* ------------------------------------------------------------------------

\* the arguments and the pipeline of a run in which analyze_document is not
\* entered
PipelineIdle ==
    /\ text = <<>>
    /\ chunk_size = 1
    /\ chunk_overlap = 0
    /\ ck = ChunkStart
    /\ unicode_analysis = ReportNone
    /\ progress_callback = "None"
    /\ pc = "idle"
    /\ PipelineReset

\* a member the object does not have
Absent == [ty |-> "absent"]

Member(k, v) == IF v = Absent THEN <<>> ELSE <<Pair(k, v)>>

\* raw values of confidence_score, ai_probability and human_probability:
\* absent, of a wrong type, negative, above 1, and around the tolerance of
\* the probability sum
RawConfidence ==
    {Absent, Str("high"), Num(0 - 200), Num(0), Num(900), Num(1300)}

RawAi ==
    {Absent, Null, Str("0.7"), Num(0 - 200), Num(0), Num(495), Num(500),
     Num(One), Num(1300)}

RawHuman ==
    {Absent, Str("n/a"), Str("1.5"), Num(0 - 200), Num(0), Num(494), Num(495),
     Num(510), Num(511), Num(One), Num(1300)}

\* a response text: an object with the given members, bare or inside
\* commentary
ObjectText(c, g, a, h, commented) ==
    LET obj == <<Open>> \o Member("confidence_score", c)
                        \o Member("is_ai_generated", g)
                        \o Member("ai_probability", a)
                        \o Member("human_probability", h) \o <<Close>>
    IN  IF commented THEN <<Junk>> \o obj \o <<Junk>> ELSE obj

\* texts that hold no JSON object
MalformedTexts ==
    {<<>>, <<Junk>>, <<Open>>, <<Close, Open>>, <<Open, Junk, Close>>,
     <<Open>> \o ValidMembers \o <<Close, Junk, Close>>}

\* the members of an answer besides the required ones
OptionalMembers ==
    <<Pair("reasoning", Str("uniform sentences")),
      Pair("specific_indicators", List(<<Str("generic phrasing")>>)),
      Pair("suspicious_phrases", List(<<Str("in conclusion")>>)),
      Pair("text_metrics",
           Dict([name \in metric_names |-> Str("high")]))>>

\* complete answers: the required members followed by all, or by some, of
\* the others
OptionalTexts ==
    {<<Open>> \o ValidMembers \o SubSeq(OptionalMembers, from, to) \o <<Close>> :
        from \in 1..Len(OptionalMembers), to \in 1..Len(OptionalMembers)}

ValidatorTexts ==
    MalformedTexts \cup OptionalTexts \cup
    {ObjectText(c, g, a, h, commented) :
        c \in RawConfidence, g \in {Absent, Bool(TRUE)}, a \in RawAi,
        h \in RawHuman, commented \in BOOLEAN}

InitValidate ==
    /\ rv \in {[done |-> FALSE, input |-> x] : x \in ValidatorTexts}
    /\ ag = NotCalled
    /\ sc = NotCalled
    /\ rl = NotCalled
    /\ gui = NotCalled
    /\ PipelineIdle

\* _parse_api_response(response_text) runs and returns or raises
Validate ==
    /\ "input" \in DOMAIN rv
    /\ ~rv.done
    /\ rv' = [done |-> TRUE, input |-> rv.input,
              out |-> ParseApiResponse(rv.input)]
    /\ UNCHANGED <<inputs, ck, pipeline, cancel_signalled, ag, sc, rl,
                   gui>>

NextValidate == Validate

SpecValidate == InitValidate /\ [][NextValidate]_vars

\* ------------------------------------------------------------------------
\* ResultAggregator called on its own: GeminiAnalyzer._aggregate_chunk_results
\* ------------------------------------------------------------------------

\* the confidences and probabilities of the window records
RecordConfidences == {0, 200, 800}

RecordAiProbs == {100, 500, 900}

\* what a window record holds besides the required fields: nothing, text
\* metrics, text metrics that are no dict, indicators, an indicator that is
\* itself a list
RecordExtras ==
    {<<>>,
     [text_metrics |-> Dict([name \in metric_names |-> Str("low")])],
     [text_metrics |-> Dict([name \in metric_names |-> Str("high")])],
     [text_metrics |-> Str("uniform")],
     [specific_indicators |-> List(<<Str("generic phrasing"), Str("no typos")>>)],
     [specific_indicators |-> List(<<List(<<Str("generic phrasing")>>)>>)]}

\* a validated, successful window record as _analyze_single_chunk returns it
WindowRecord(c, p, extra) ==
    extra @@ [success |-> Bool(TRUE),
              confidence_score |-> Num(c),
              is_ai_generated |-> Bool(2 * p > One),
              ai_probability |-> Num(p),
              human_probability |-> Num(One - p)]

WindowRecords ==
    {WindowRecord(c, p, extra) :
        c \in RecordConfidences, p \in RecordAiProbs, extra \in RecordExtras}

\* the lists of at most MaxRecords window records
RecordLists == UNION {[1..n -> WindowRecords] : n \in 0..MaxRecords}

\* chunk_results as the loop of _analyze_with_chunks leaves it: the records
\* of the windows that succeeded, in window order; failed is the number of
\* windows whose record the loop did not append
InitAggregate ==
    /\ ag \in {[done |-> FALSE, input |-> l, failed |-> f] :
                  l \in RecordLists, f \in 0..MaxFailed}
    /\ rv = NotCalled
    /\ sc = NotCalled
    /\ rl = NotCalled
    /\ gui = NotCalled
    /\ PipelineIdle

\* _aggregate_chunk_results(chunk_results, original_text) runs and returns
\* or raises
Aggregate ==
    /\ "input" \in DOMAIN ag
    /\ ~ag.done
    /\ ag' = [done |-> TRUE, input |-> ag.input, failed |-> ag.failed,
              out |-> AggregateChunkResults(ag.input, DocText(MaxDocLen))]
    /\ UNCHANGED <<inputs, ck, pipeline, cancel_signalled, rv, sc, rl,
                   gui>>

NextAggregate == Aggregate

SpecAggregate == InitAggregate /\ [][NextAggregate]_vars

\* ------------------------------------------------------------------------
\* InvisibleCharScanner called on its own:
\* PDFProcessor._analyze_unicode_characters
\* ------------------------------------------------------------------------

\* the characters of the texts scanned: zero-width space, soft hyphen, byte
\* order mark, the first and the last private-use character, the character
\* after the private-use area, and the letter a
ScanChars == {8203, 173, 65279, PrivateUseFirst, PrivateUseLast,
              PrivateUseLast + 1, 97}

\* the lengths of the runs: at and next to the thresholds, and long enough
\* for the ratio to fall below its threshold
RunLengths ==
    {1, WatermarkThreshold, WatermarkThreshold + 1, 30, CountThreshold,
     CountThreshold + 1, 999, 51000}

ScanRuns == {[cp |-> c, n |-> k] : c \in ScanChars, k \in RunLengths}

\* the texts of at most MaxRuns runs
ScanTexts == UNION {[1..m -> ScanRuns] : m \in 0..MaxRuns}

InitScan ==
    /\ sc \in {[done |-> FALSE, input |-> x] : x \in ScanTexts}
    /\ rv = NotCalled
    /\ ag = NotCalled
    /\ rl = NotCalled
    /\ gui = NotCalled
    /\ PipelineIdle

\* _analyze_unicode_characters(text) runs and returns
Scan ==
    /\ "input" \in DOMAIN sc
    /\ ~sc.done
    /\ sc' = [done |-> TRUE, input |-> sc.input,
              out |-> AnalyzeUnicodeCharacters(sc.input)]
    /\ UNCHANGED <<inputs, ck, pipeline, cancel_signalled, rv, ag, rl,
                   gui>>

NextScan == Scan

SpecScan == InitScan /\ [][NextScan]_vars

\* ------------------------------------------------------------------------
\* The retry loop called on its own, step by step:
\* GeminiAnalyzer._make_robust_api_call
\* ------------------------------------------------------------------------

\* what the port may do on one call, a missing response object included
RetryOutcomes == PortOutcomes \cup {PortNone}

CallEvent(outcome) == [kind |-> "call", outcome |-> outcome, time |-> 0]

WaitEvent(time) == [kind |-> "wait", outcome |-> PortNone, time |-> time]

\* WaitTime with the exponent one too high
WaitTimeNextAttempt(attempt) == Pow(retry_delay_base, attempt + 1)

\* wait_time = self.retry_delay_base ** attempt
WaitTime(attempt) == Pow(retry_delay_base, attempt)

\* the loop is entered: attempt = 0, generate_content is about to be called
InitRetry ==
    /\ rl = [done |-> FALSE, attempt |-> 0, at |-> "call", events |-> <<>>,
             out |-> Return(PortNone)]
    /\ rv = NotCalled
    /\ ag = NotCalled
    /\ sc = NotCalled
    /\ gui = NotCalled
    /\ PipelineIdle

\* lines 254-263: the port is called; a non-empty response is returned,
\* anything else enters the except branch
RetryCall ==
    /\ "at" \in DOMAIN rl
    /\ ~rl.done
    /\ rl.at = "call"
    /\ rl.attempt < max_retries
    /\ \E outcome \in RetryOutcomes :
          rl' = IF NonEmptyResponse(outcome)
                THEN [rl EXCEPT !.events = Append(@, CallEvent(outcome)),
                                !.done = TRUE,
                                !.out = Return(outcome)]
                ELSE [rl EXCEPT !.events = Append(@, CallEvent(outcome)),
                                !.at = "except"]
    /\ UNCHANGED <<inputs, ck, pipeline, cancel_signalled, rv, ag, sc, gui>>

\* lines 265-272: not the last attempt, the loop sleeps and goes on
RetrySleep ==
    /\ "at" \in DOMAIN rl
    /\ ~rl.done
    /\ rl.at = "except"
    /\ rl.attempt < max_retries - 1
    /\ rl' = [rl EXCEPT !.events = Append(@, WaitEvent(WaitTime(rl.attempt))),
                        !.attempt = @ + 1,
                        !.at = "call"]
    /\ UNCHANGED <<inputs, ck, pipeline, cancel_signalled, rv, ag, sc, gui>>

\* lines 265-274: the last attempt failed, the loop raises
RetryGiveUp ==
    /\ "at" \in DOMAIN rl
    /\ ~rl.done
    /\ rl.at = "except"
    /\ ~(rl.attempt < max_retries - 1)
    /\ rl' = [rl EXCEPT !.done = TRUE,
                        !.out = Raise("API-Call nach max_retries Versuchen fehlgeschlagen")]
    /\ UNCHANGED <<inputs, ck, pipeline, cancel_signalled, rv, ag, sc, gui>>

NextRetry == RetryCall \/ RetrySleep \/ RetryGiveUp

SpecRetry == InitRetry /\ [][NextRetry]_vars

\* ------------------------------------------------------------------------
\* The window: KIScannerApp (main.py).  The main thread runs the button
\* commands and the callbacks queued with root.after, one at a time; every
\* analysis runs in a worker thread of its own.
\* ------------------------------------------------------------------------

\* the text of the API-key entry and of the path entry
ApiKeys == {"", "key"}

SelectedPdf == "document.pdf"

\* what process_pdf may answer for a path: nothing can be read from the
\* empty path, a file may be readable or not
PdfOutcomes(path) == IF path = "" THEN {FALSE} ELSE BOOLEAN

\* the 'success' of what analyze_document returns to the worker: no prompt
\* is ever built, so no analysis succeeds
AnalysisOutcomes == {ok \in BOOLEAN : ok => StrFormatAccepts(MetricsFieldSpec)}

\* a worker thread at the start of _perform_analysis
NewWorker == [at |-> "process_pdf", success |-> FALSE]

\* threading.Thread.is_alive()
IsAlive(worker) == worker.at # "dead"

\* `self.analysis_thread and self.analysis_thread.is_alive()`
AnalysisRunning ==
    /\ gui.analysis_thread # 0
    /\ IsAlive(gui.threads[gui.analysis_thread])

\* the worker threads that have not ended
AliveThreads == {w \in 1..Len(gui.threads) : IsAlive(gui.threads[w])}

GuiOthersUnchanged ==
    UNCHANGED <<inputs, ck, pipeline, cancel_signalled, rv, ag, sc, rl>>

\* KIScannerApp.__init__ and _create_widgets.  abandoned is history: a reset
\* was confirmed while an analysis was running and no analysis has been
\* started since
InitGui ==
    /\ gui \in {[api_key |-> k,
                 pdf_path |-> "",
                 current_analysis_results |-> [stored |-> FALSE, success |-> FALSE],
                 analysis_thread |-> 0,
                 threads |-> <<>>,
                 analyze_button |-> "normal",
                 export_button |-> "disabled",
                 after_queue |-> <<>>,
                 results_shown |-> FALSE,
                 warned |-> FALSE,
                 abandoned |-> FALSE] : k \in ApiKeys}
    /\ rv = NotCalled
    /\ ag = NotCalled
    /\ sc = NotCalled
    /\ rl = NotCalled
    /\ PipelineIdle

\* the user types an API key
EnterApiKey ==
    /\ "api_key" \in DOMAIN gui
    /\ \E k \in ApiKeys : gui' = [gui EXCEPT !.api_key = k]
    /\ GuiOthersUnchanged

\* _browse_pdf_file with a file chosen
BrowsePdfFile ==
    /\ "pdf_path" \in DOMAIN gui
    /\ gui' = [gui EXCEPT !.pdf_path = SelectedPdf]
    /\ GuiOthersUnchanged

\* StartAnalysis without the check for a running analysis
StartAnalysisUnchecked ==
    /\ "analyze_button" \in DOMAIN gui
    /\ gui.analyze_button = "normal"
    /\ Len(gui.threads) < MaxStarts
    /\ gui' = IF gui.api_key = "" \/ gui.pdf_path = ""
              THEN gui
              ELSE [gui EXCEPT !.analyze_button = "disabled",
                               !.export_button = "disabled",
                               !.results_shown = FALSE,
                               !.threads = Append(gui.threads, NewWorker),
                               !.analysis_thread = Len(gui.threads) + 1,
                               !.abandoned = FALSE]
    /\ GuiOthersUnchanged

\* _start_analysis, the command of the analyze button
StartAnalysis ==
    /\ "analyze_button" \in DOMAIN gui
    /\ gui.analyze_button = "normal"
    /\ Len(gui.threads) < MaxStarts
    /\ gui' = IF gui.api_key = "" \/ gui.pdf_path = ""
              THEN gui
              ELSE IF AnalysisRunning
              THEN [gui EXCEPT !.warned = TRUE]
              ELSE [gui EXCEPT !.analyze_button = "disabled",
                               !.export_button = "disabled",
                               !.results_shown = FALSE,
                               !.threads = Append(gui.threads, NewWorker),
                               !.analysis_thread = Len(gui.threads) + 1,
                               !.abandoned = FALSE]
    /\ GuiOthersUnchanged

\* _reset_analysis, the command of the reset button; confirmed is the answer
\* to the question asked while an analysis is running
ResetAnalysisGui ==
    /\ "pdf_path" \in DOMAIN gui
    /\ \E confirmed \in BOOLEAN :
           gui' = IF AnalysisRunning /\ ~confirmed
                  THEN gui
                  ELSE [gui EXCEPT
                           !.pdf_path = "",
                           !.current_analysis_results =
                               [stored |-> FALSE, success |-> FALSE],
                           !.analyze_button = "normal",
                           !.export_button = "disabled",
                           !.results_shown = FALSE,
                           !.abandoned = gui.abandoned \/ AnalysisRunning]
    /\ GuiOthersUnchanged

\* the worker w moves on
WorkerAt(w, at) ==
    /\ "threads" \in DOMAIN gui
    /\ w \in 1..Len(gui.threads)
    /\ gui.threads[w].at = at

\* _perform_analysis, lines 323-326: process_pdf on the path the entry holds
\* now
WorkerProcessPdf ==
    \E w \in 1..MaxStarts :
        /\ WorkerAt(w, "process_pdf")
        /\ \E ok \in PdfOutcomes(gui.pdf_path) :
               gui' = [gui EXCEPT !.threads[w].at =
                           IF ok THEN "analyze_document" ELSE "except"]
        /\ GuiOthersUnchanged

\* lines 364-368: analyze_document returns
WorkerAnalyzeDocument ==
    \E w \in 1..MaxStarts :
        /\ WorkerAt(w, "analyze_document")
        /\ \E ok \in AnalysisOutcomes :
               gui' = [gui EXCEPT !.threads[w] =
                           [at |-> "store", success |-> ok]]
        /\ GuiOthersUnchanged

\* line 383: self.current_analysis_results = combined_results
WorkerStoreResults ==
    \E w \in 1..MaxStarts :
        /\ WorkerAt(w, "store")
        /\ gui' = [gui EXCEPT
                      !.current_analysis_results =
                          [stored |-> TRUE, success |-> gui.threads[w].success],
                      !.threads[w].at = "after_display"]
        /\ GuiOthersUnchanged

\* line 387: self.root.after(0, self._display_final_results)
WorkerQueueDisplay ==
    \E w \in 1..MaxStarts :
        /\ WorkerAt(w, "after_display")
        /\ gui' = [gui EXCEPT
                      !.after_queue = Append(gui.after_queue, "display"),
                      !.threads[w].at = "finally"]
        /\ GuiOthersUnchanged

\* lines 389-392: the except branch queues _handle_analysis_error
WorkerExcept ==
    \E w \in 1..MaxStarts :
        /\ WorkerAt(w, "except")
        /\ gui' = [gui EXCEPT
                      !.after_queue = Append(gui.after_queue, "error"),
                      !.threads[w].at = "finally"]
        /\ GuiOthersUnchanged

\* lines 394-396: the finally branch queues _analysis_completed and the
\* thread ends
WorkerFinally ==
    \E w \in 1..MaxStarts :
        /\ WorkerAt(w, "finally")
        /\ gui' = [gui EXCEPT
                      !.after_queue = Append(gui.after_queue, "completed"),
                      !.threads[w].at = "dead"]
        /\ GuiOthersUnchanged

\* the main loop runs the oldest queued callback
Queued(callback) ==
    /\ "after_queue" \in DOMAIN gui
    /\ gui.after_queue # <<>>
    /\ Head(gui.after_queue) = callback

\* _display_final_results
DisplayFinalResults ==
    /\ Queued("display")
    /\ gui' = IF ~gui.current_analysis_results.stored
              THEN [gui EXCEPT !.after_queue = Tail(gui.after_queue)]
              ELSE [gui EXCEPT
                       !.after_queue = Tail(gui.after_queue),
                       !.results_shown = TRUE,
                       !.export_button =
                           IF gui.current_analysis_results.success
                           THEN "normal" ELSE gui.export_button]
    /\ GuiOthersUnchanged

\* _handle_analysis_error
HandleAnalysisError ==
    /\ Queued("error")
    /\ gui' = [gui EXCEPT !.after_queue = Tail(gui.after_queue)]
    /\ GuiOthersUnchanged

\* _analysis_completed
AnalysisCompleted ==
    /\ Queued("completed")
    /\ gui' = [gui EXCEPT !.after_queue = Tail(gui.after_queue),
                          !.analyze_button = "normal"]
    /\ GuiOthersUnchanged

NextGui ==
    \/ EnterApiKey
    \/ BrowsePdfFile
    \/ StartAnalysis
    \/ ResetAnalysisGui
    \/ WorkerProcessPdf
    \/ WorkerAnalyzeDocument
    \/ WorkerStoreResults
    \/ WorkerQueueDisplay
    \/ WorkerExcept
    \/ WorkerFinally
    \/ DisplayFinalResults
    \/ HandleAnalysisError
    \/ AnalysisCompleted

SpecGui == InitGui /\ [][NextGui]_vars

\* ------------------------------------------------------------------------
\* Properties of the pipeline (checked under Spec)
\* ------------------------------------------------------------------------

\* an invocation of _analyze_single_chunk has returned
ChunkAnalyzed == last_chunk.index > 0

\* the first response of the port in the last invocation's script is a
\* non-empty text that the validator accepts
FirstResponseValid ==
    /\ NonEmptyResponse(last_chunk.script[1])
    /\ ~ParseApiResponse(last_chunk.script[1].text).raised

\* the first response of the port is a non-empty text the validator rejects
FirstResponseMalformed ==
    /\ NonEmptyResponse(last_chunk.script[1])
    /\ ParseApiResponse(last_chunk.script[1].text).raised

\* the port answered every call of the last invocation with an empty text
PortAlwaysEmpty ==
    /\ Len(last_chunk.script) = max_retries
    /\ \A k \in 1..max_retries : last_chunk.script[k] = PortText(<<>>)

StrictlyIncreasing(seq) == \A k \in 1..(Len(seq) - 1) : seq[k] < seq[k + 1]

\* the windows analyze_document has to analyze
ExpectedWindows ==
    IF Len(text) <= chunk_size THEN 1
    ELSE Len(CreateOverlappingChunks(text, chunk_size, chunk_overlap))

\* C1: every invocation of _analyze_single_chunk builds its prompt and calls
\* the port at least once; when the first response is a non-empty text with
\* a valid JSON object, the returned record has success = true and carries
\* the validated confidence_score, is_ai_generated and ai_probability.
C1_PromptBuiltPortCalled ==
    ChunkAnalyzed =>
        /\ ~CreateAnalysisPrompt(last_chunk.text, last_chunk.report,
                                 chunk_size).raised
        /\ last_chunk.calls >= 1
        /\ FirstResponseValid =>
              LET v == ParseApiResponse(last_chunk.script[1].text).value
              IN  /\ Succeeded(last_chunk.result)
                  /\ \A f \in required_fields :
                        /\ f \in DOMAIN last_chunk.result
                        /\ last_chunk.result[f] = v[f]

\* C2: with a port that answers every call with an empty response, one
\* invocation makes exactly max_retries port calls with strictly increasing
\* waits between them and returns a failure record; when the window is the
\* whole document, analyze_document returns a failure.
C2_RetryExhaustion ==
    (ChunkAnalyzed /\ PortAlwaysEmpty) =>
        /\ last_chunk.calls = max_retries
        /\ Len(last_chunk.waits) = max_retries - 1
        /\ StrictlyIncreasing(last_chunk.waits)
        /\ ~Succeeded(last_chunk.result)
        /\ (pc = "done" /\ Len(text) <= chunk_size) => ~Succeeded(result)

\* C3: when the first response is a non-empty text without a parseable JSON
\* object, or with an object lacking a required field, the invocation makes
\* exactly one port call, waits not at all, and returns a failure record.
C3_MalformedNotRetried ==
    (ChunkAnalyzed /\ FirstResponseMalformed) =>
        /\ last_chunk.calls = 1
        /\ last_chunk.waits = <<>>
        /\ ~Succeeded(last_chunk.result)

\* C4: in a multi-window run the windows are analyzed once each in index
\* order 1..N whatever their outcome, all N of them by the time the run is
\* done (unless the callback raised); the aggregator is handed its list at
\* most once, only after the last window, and the list is the successful
\* windows in window order.
C4_WindowFailureDoesNotAbort ==
    Len(text) > chunk_size =>
        /\ analyzed = [k \in 1..Len(analyzed) |-> k]
        /\ Len(window_results) = Len(analyzed)
        /\ chunk_results = SelectSeq(window_results, Succeeded)
        /\ (pc = "done" /\ ~cb_raised) => Len(analyzed) = ExpectedWindows
        /\ Len(agg_inputs) <= 1
        /\ \A k \in 1..Len(agg_inputs) :
              /\ Len(analyzed) = ExpectedWindows
              /\ agg_inputs[k] = SelectSeq(window_results, Succeeded)

\* a run of three or more windows is done, its first window failed and all
\* its windows were analyzed
C4_Witness ==
    /\ pc = "done"
    /\ Len(chunks) >= 3
    /\ Len(analyzed) = Len(chunks)
    /\ ~Succeeded(window_results[1])

\* C5: when the run is done and no window succeeded, the value returned has
\* success = false and a non-empty error message, and the aggregator was
\* never invoked.
C5_NoSuccessfulWindowFails ==
    (pc = "done" /\ \A k \in 1..Len(window_results) :
                        ~Succeeded(window_results[k])) =>
        /\ ~Succeeded(result)
        /\ "error" \in DOMAIN result
        /\ result["error"].s # ""
        /\ agg_inputs = <<>>

\* a run of two or more windows is done and every window was analyzed and
\* failed
C5_Witness ==
    /\ pc = "done"
    /\ Len(chunks) >= 2
    /\ Len(window_results) = Len(chunks)
    /\ \A k \in 1..Len(window_results) : ~Succeeded(window_results[k])

\* the value analyze_document returns when no callback invocation raises,
\* given what the windows returned
ResultWithoutCallbackFailure ==
    IF Len(text) <= chunk_size
    THEN Update(last_chunk.result, [analysis_method |-> Str("single_chunk")])
    ELSE IF chunk_results = <<>>
    THEN FailureRecord("Keine erfolgreichen Chunk-Analysen")
    ELSE LET agg == AggregateChunkResults(chunk_results, text)
         IN  IF agg.raised THEN DocumentFailure(agg.error) ELSE agg.value

\* C6: when an invocation of the callback raised, the run still analyzes
\* every window and returns what it returns with a callback that never
\* raises.
C6_CallbackFailureSwallowed ==
    (pc = "done" /\ cb_raised) =>
        /\ Len(analyzed) = ExpectedWindows
        /\ result = ResultWithoutCallbackFailure

\* C7: once the reset was confirmed during a run, no further window is
\* analyzed and no further port call is made.
C7_NoWorkAfterCancel ==
    [][cancel_signalled =>
          /\ analyzed' = analyzed
          /\ port_calls' = port_calls]_vars

\* ------------------------------------------------------------------------
\* Properties of the chunker (checked under SpecChunk)
\* ------------------------------------------------------------------------

\* the first window whole, every later window without its first O characters
RECURSIVE NonOverlapping(_, _, _)
NonOverlapping(windows, O, k) ==
    IF k > Len(windows) THEN <<>>
    ELSE (IF k = 1 THEN windows[k] ELSE Slice(windows[k], O, Len(windows[k])))
         \o NonOverlapping(windows, O, k + 1)

\* C8: once the chunker has returned, the first window followed by every
\* later window without its first chunk_overlap characters is the text itself.
C8_ChunkCoverage ==
    ck.done => NonOverlapping(ck.chunks, chunk_overlap, 1) = text

\* the chunker has returned three or more windows that overlap
C8_Witness ==
    /\ ck.done
    /\ Len(ck.chunks) >= 3
    /\ chunk_overlap >= 1
    /\ NonOverlapping(ck.chunks, chunk_overlap, 1) = text

\* C9 as stated: the chunker returns exactly one window iff len(text) <= W,
\* the empty text included.
C9_SingleIffShort ==
    ck.done => (Len(ck.chunks) = 1 <=> Len(text) <= chunk_size)

\* C9 amended: for a non-empty text the chunker returns exactly one window
\* iff len(text) <= W; for the empty text it returns no window at all.
C9_SingleIffShortNonEmpty ==
    ck.done =>
        IF Len(text) = 0
        THEN ck.chunks = <<>>
        ELSE (Len(ck.chunks) = 1 <=> Len(text) <= chunk_size)

\* the chunker has returned one window for a text of exactly W characters
C9_Witness ==
    /\ ck.done
    /\ Len(text) = chunk_size
    /\ Len(ck.chunks) = 1

\* C10: every window the chunker has produced is non-empty and at most W
\* characters long, and there are never more windows than characters (the
\* sequence is finite).
C10_WindowsBounded ==
    /\ \A k \in 1..Len(ck.chunks) :
          /\ Len(ck.chunks[k]) >= 1
          /\ Len(ck.chunks[k]) <= chunk_size
    /\ Len(ck.chunks) <= Len(text)

\* the chunker has returned several windows, the last one shorter than W
C10_Witness ==
    /\ ck.done
    /\ Len(ck.chunks) >= 2
    /\ Len(ck.chunks[Len(ck.chunks)]) < chunk_size

\* C11: called with a non-positive window size or an overlap that is not
\* smaller than the window size, the chunker produces no window (it reports
\* InvalidInput at once instead of entering its loop)
C11_InvalidConfigRejected ==
    InvalidConfig(chunk_size, chunk_overlap) => ck.chunks = <<>>

\* ------------------------------------------------------------------------
\* Properties of the validator (checked under SpecValidate)
\* ------------------------------------------------------------------------

\* the members of the raw text
RawMembers == {rv.input[k] : k \in 1..Len(rv.input)}

\* _parse_api_response returned a record
Validated == rv.done /\ ~rv.out.raised

\* C12: every record the validator returns has confidence_score,
\* ai_probability and human_probability in [0, 1] and ai_probability +
\* human_probability within 0.01 of 1, whatever the raw values were
C12_ProbabilityInvariant ==
    Validated =>
        LET r == rv.out.value
        IN  /\ \A k \in {"confidence_score", "ai_probability",
                         "human_probability"} :
                   /\ k \in DOMAIN r
                   /\ r[k].ty = "num"
                   /\ 0 <= r[k].n
                   /\ r[k].n <= One
            /\ Abs(r["ai_probability"].n + r["human_probability"].n - One)
                   <= Tolerance

\* a record is returned for a raw confidence above 1, a raw ai_probability of
\* 0.5 and a raw human_probability below 0
C12_Witness ==
    /\ Validated
    /\ Pair("confidence_score", Num(1300)) \in RawMembers
    /\ Pair("ai_probability", Num(500)) \in RawMembers
    /\ Pair("human_probability", Num(0 - 200)) \in RawMembers
    /\ rv.out.value["human_probability"] = Num(500)

\* ------------------------------------------------------------------------
\* Properties of the aggregator (checked under SpecAggregate)
\* ------------------------------------------------------------------------

\* _aggregate_chunk_results returned a document record
Aggregated == ag.done /\ ~ag.out.raised /\ Succeeded(ag.out.value)

\* the fraction q equals x thousandths
RatIs(q, x) == q.num = x * q.den

\* the method a document record names: "single" for 'single_chunk',
\* "chunked" for 'chunked_with_overlap'
MethodOf(d) ==
    LET m == IF "analysis_summary" \in DOMAIN d
             THEN d.analysis_summary.analysis_method
             ELSE "none"
    IN  CASE m = "chunked_with_overlap" -> "chunked"
          [] m = "single_chunk"         -> "single"
          [] OTHER                      -> m

\* C13: aggregating a list of exactly one successful window record yields a
\* document record with that record's confidence_score, ai_probability,
\* human_probability and is_ai_generated, and with method "single"
C13_SingleRecordIdempotent ==
    (Aggregated /\ Len(ag.input) = 1) =>
        LET r == ag.input[1]
            d == ag.out.value
        IN  /\ RatIs(d.confidence_score, r.confidence_score.n)
            /\ RatIs(d.ai_probability, r.ai_probability.n)
            /\ RatIs(d.human_probability, r.human_probability.n)
            /\ d.is_ai_generated = r.is_ai_generated
            /\ MethodOf(d) = "single"

\* the confidences and the ai_probabilities of the records handed over
InputConfidences == [k \in 1..Len(ag.input) |-> ag.input[k].confidence_score.n]

InputAiProbs == [k \in 1..Len(ag.input) |-> ag.input[k].ai_probability.n]

\* sum of f[k] * g[k] over k = 1..m
RECURSIVE DotProduct(_, _, _)
DotProduct(f, g, m) ==
    IF m = 0 THEN 0 ELSE f[m] * g[m] + DotProduct(f, g, m - 1)

AllOnes(m) == [k \in 1..m |-> 1]

RECURSIVE GCD(_, _)
GCD(a, b) == IF b = 0 THEN a ELSE GCD(b, a % b)

\* the fraction q equals num / den
SameFraction(q, num, den) ==
    LET g == GCD(q.num, q.den)
        h == GCD(num, den)
    IN  /\ q.num \div g = num \div h
        /\ q.den \div g = den \div h

\* C14: for a non-empty list of successful records the aggregated
\* ai_probability is sum(ai_probability_i * confidence_i) / sum(confidence_i)
\* and confidence_score is the mean of the confidences; when all confidences
\* are 0, ai_probability is the plain mean and confidence_score is 0.5
C14_WeightedCorrectness ==
    (Aggregated /\ ag.input # <<>>) =>
        LET m == Len(ag.input)
            d == ag.out.value
            weights == DotProduct(InputConfidences, AllOnes(m), m)
            weighted == DotProduct(InputAiProbs, InputConfidences, m)
            plain == DotProduct(InputAiProbs, AllOnes(m), m)
        IN  IF weights > 0
            THEN /\ SameFraction(d.ai_probability, weighted, weights)
                 /\ SameFraction(d.confidence_score, weights, m)
            ELSE /\ SameFraction(d.ai_probability, plain, m)
                 /\ RatIs(d.confidence_score, One \div 2)

\* confidences [0.2, 0.8] with probabilities [0.1, 0.9] have been aggregated
\* to 0.74
C14_Witness ==
    /\ Aggregated
    /\ InputConfidences = <<200, 800>>
    /\ InputAiProbs = <<100, 900>>
    /\ RatIs(ag.out.value.ai_probability, 740)
    /\ RatIs(ag.out.value.confidence_score, 500)

\* C15: a successful document record carries analysis_summary.method,
\* "chunked" when more than one window contributed and "single" otherwise
C15_MethodNamesContribution ==
    Aggregated =>
        MethodOf(ag.out.value) =
            IF Len(ag.input) > 1 THEN "chunked" ELSE "single"

\* ------------------------------------------------------------------------
\* Properties of the scanner (checked under SpecScan)
\* ------------------------------------------------------------------------

\* the ten recognized code points
RecognizedCodePoints ==
    {invisible_chars[k].cp : k \in 1..Len(invisible_chars)}

\* the characters of the scanned text whose code point is in S, each
\* counted once
RECURSIVE CharactersIn(_, _)
CharactersIn(runs, S) ==
    IF runs = <<>> THEN 0
    ELSE (IF Head(runs).cp \in S THEN Head(runs).n ELSE 0)
         + CharactersIn(Tail(runs), S)

InvisibleCodePoints == RecognizedCodePoints \cup (PrivateUseFirst..PrivateUseLast)

ScannedLength == CharactersIn(sc.input, {sc.input[k].cp : k \in 1..Len(sc.input)})

\* C16: total_invisible_count is the number of characters that are one of
\* the ten recognized code points or lie in U+E000..U+F8FF, each counted
\* once; invisibility_ratio is total_invisible_count / len(text), 0 for the
\* empty text; n zero-width spaces and nothing else give total n, ratio 1.0
C16_InvisibleCounting ==
    sc.done =>
        LET r == sc.out
            expected == CharactersIn(sc.input, InvisibleCodePoints)
        IN  /\ r.total_invisible_count = expected
            /\ r.text_length = ScannedLength
            /\ IF sc.input = <<>>
               THEN RatIs(r.invisibility_ratio, 0)
               ELSE SameFraction(r.invisibility_ratio, expected * One,
                                 ScannedLength)
            /\ (sc.input # <<>> /\ \A k \in 1..Len(sc.input) :
                                       sc.input[k].cp = 8203)
                   => /\ r.total_invisible_count = ScannedLength
                      /\ RatIs(r.invisibility_ratio, One)

\* 21 zero-width spaces and nothing else have been scanned: total 21,
\* ratio 1.0
C16_Witness ==
    /\ sc.done
    /\ sc.input = <<[cp |-> 8203, n |-> 21]>>
    /\ sc.out.total_invisible_count = 21
    /\ RatIs(sc.out.invisibility_ratio, One)

\* C17: suspicious_patterns holds the count flag iff total_invisible_count
\* > 50, the density flag iff total_invisible_count / len(text) > 0.001 and
\* the watermark flag iff there are more than 20 zero-width spaces, each
\* independently of the others and always in this order
C17_SuspiciousPatternRules ==
    sc.done =>
        LET total == CharactersIn(sc.input, InvisibleCodePoints)
            zwsp == CharactersIn(sc.input, {8203})
            flags == <<[on |-> total > 50,
                        flag |-> "Sehr hohe Anzahl unsichtbarer Zeichen"],
                       [on |-> 1000 * total > ScannedLength,
                        flag |-> "Hohe Dichte unsichtbarer Zeichen"],
                       [on |-> zwsp > 20,
                        flag |-> "Verdacht auf AI-Wasserzeichen (Zero-Width Spaces)"]>>
            raised == SelectSeq(flags, LAMBDA f : f.on)
        IN  sc.out.suspicious_patterns =
                [k \in 1..Len(raised) |-> raised[k].flag]

\* exactly 50 soft hyphens after 51000 letters raise no flag (50 is not above
\* the count threshold, the ratio is below 0.001)
C17_Witness ==
    /\ sc.done
    /\ sc.input = <<[cp |-> 97, n |-> 51000], [cp |-> 173, n |-> 50]>>
    /\ sc.out.total_invisible_count = 50
    /\ sc.out.suspicious_patterns = <<>>

\* ------------------------------------------------------------------------
\* Properties of the pipeline's error handling and mode selection (checked
\* under Spec)
\* ------------------------------------------------------------------------

\* r is a record that says whether it succeeded, and why not if it did not
StructuredOutcome(r) ==
    /\ "success" \in DOMAIN r
    /\ ~Succeeded(r) =>
           /\ r["success"] = Bool(FALSE)
           /\ "error" \in DOMAIN r
           /\ r["error"].ty = "str"
           /\ r["error"].s # ""

\* C18: every invocation of _analyze_single_chunk returns a record, whatever
\* the window, the report and the port do; when the analysis did not succeed
\* the record has success = false and a non-empty error reason
C18_ChunkAnalyzerReturnsRecord ==
    /\ Len(window_results) = Len(analyzed)
    /\ \A k \in 1..Len(window_results) : StructuredOutcome(window_results[k])
    /\ ChunkAnalyzed => last_chunk.result = window_results[Len(window_results)]

\* an invocation whose port raised on every call has returned a failure
\* record with a reason
C18_Witness ==
    /\ ChunkAnalyzed
    /\ Len(last_chunk.script) = max_retries
    /\ \A k \in 1..max_retries : last_chunk.script[k] = PortRaises
    /\ last_chunk.result["success"] = Bool(FALSE)
    /\ last_chunk.result["error"].s # ""

\* C19: analyze_document returns a structured value whatever the text, the
\* report, the callback and the port's answers are; a failure is a value
\* with success = false and a non-empty error message
C19_AnalyzeDocumentReturnsValue ==
    pc = "done" => StructuredOutcome(result)

\* a run whose callback raised, after a window whose answer carried fields
\* of unexpected types, has returned a failure value with a message
C19_Witness ==
    /\ pc = "done"
    /\ cb_raised
    /\ ChunkAnalyzed
    /\ last_chunk.script[1] = PortText(OddlyTypedText)
    /\ result["success"] = Bool(FALSE)
    /\ result["error"].s # ""

\* C20: a text no longer than the window size is analyzed by exactly one
\* _analyze_single_chunk invocation on the whole text, without chunker and
\* aggregator; a longer text is chunked, analyzed by N >= 2 invocations, N
\* the number of windows of the chunker, and then aggregated
C20_ModeSelection ==
    (pc = "done" /\ ~cb_raised) =>
        IF Len(text) <= chunk_size
        THEN /\ analyzed = <<1>>
             /\ last_chunk.text = text
             /\ chunks = <<>>
             /\ agg_inputs = <<>>
        ELSE /\ chunks = CreateOverlappingChunks(text, chunk_size, chunk_overlap)
             /\ Len(chunks) >= 2
             /\ Len(analyzed) = Len(chunks)
             /\ FirstResponseValid => Len(agg_inputs) = 1

\* ------------------------------------------------------------------------
\* Properties of the retry loop (checked under SpecRetry)
\* ------------------------------------------------------------------------

\* the port calls and the sleeps of the loop so far
RetryCalls == SelectSeq(rl.events, LAMBDA e : e.kind = "call")

RetryWaits == SelectSeq(rl.events, LAMBDA e : e.kind = "wait")

\* C21: port calls and waits strictly alternate; the wait after the failed
\* attempt k (from 0) is base^k; there are at most max_retries - 1 waits and
\* none after the last permitted attempt; after a non-empty response there
\* is no further call or wait, so k failures followed by a success cost
\* exactly k + 1 calls
C21_BackoffSchedule ==
    LET events == rl.events
        n == Len(events)
    IN  /\ \A k \in 1..n :
               events[k].kind = IF k % 2 = 1 THEN "call" ELSE "wait"
        /\ \A k \in 1..Len(RetryWaits) :
               RetryWaits[k].time = Pow(retry_delay_base, k - 1)
        /\ Len(RetryWaits) <= max_retries - 1
        /\ Len(RetryCalls) <= max_retries
        /\ \A k \in 1..(n - 1) : ~NonEmptyResponse(events[k].outcome)
        /\ rl.done =>
               /\ events[n].kind = "call"
               /\ Len(RetryCalls) = Len(RetryWaits) + 1
               /\ IF rl.out.raised
                  THEN /\ Len(RetryCalls) = max_retries
                       /\ ~NonEmptyResponse(events[n].outcome)
                  ELSE /\ NonEmptyResponse(events[n].outcome)
                       /\ rl.out.value = events[n].outcome

\* two failed calls and a third that returned a non-empty response: three
\* calls, waits of 1 and 2
C21_Witness ==
    /\ rl.done
    /\ ~rl.out.raised
    /\ Len(RetryCalls) = 3
    /\ [k \in 1..Len(RetryWaits) |-> RetryWaits[k].time] = <<1, 2>>

\* ------------------------------------------------------------------------
\* Further properties of the chunker (checked under SpecChunk)
\* ------------------------------------------------------------------------

\* the characters of the text from the 0-based position from on, at most
\* len of them
TextFrom(from, len) == SubSeq(text, from + 1, Min(from + len, Len(text)))

\* C22: for a text longer than W, every window but the last has length W,
\* window k+1 starts W - O characters after window k, the last O characters
\* of window k are the first O characters of window k+1, and the last
\* window is longer than O
C22_ExactOverlap ==
    (ck.done /\ Len(text) > chunk_size) =>
        LET windows == ck.chunks
            n == Len(windows)
            step == chunk_size - chunk_overlap
        IN  /\ n >= 2
            /\ \A k \in 1..(n - 1) : Len(windows[k]) = chunk_size
            /\ \A k \in 1..n :
                   windows[k] = TextFrom((k - 1) * step, chunk_size)
            /\ Len(windows[n]) > chunk_overlap
            /\ \A k \in 1..(n - 1) :
                   SubSeq(windows[k], chunk_size - chunk_overlap + 1, chunk_size)
                       = SubSeq(windows[k + 1], 1, chunk_overlap)

\* a text cut into at least three windows that overlap by one character,
\* the last one shorter than the others
C22_Witness ==
    /\ ck.done
    /\ chunk_overlap = 1
    /\ Len(ck.chunks) >= 3
    /\ Len(ck.chunks[Len(ck.chunks)]) < chunk_size
    /\ ck.chunks[1][chunk_size] = ck.chunks[2][1]

\* ------------------------------------------------------------------------
\* Properties of the pipeline's reports and progress messages (checked
\* under Spec)
\* ------------------------------------------------------------------------

\* C23: in a multi-window run the report is passed to the invocation for
\* window 1 only, every later window is analyzed with no report, and the
\* prompt gets the section on invisible characters only when a report was
\* passed whose total_invisible_count is > 0
C23_ReportForFirstWindowOnly ==
    (ChunkAnalyzed /\ Len(text) > chunk_size) =>
        /\ last_chunk.index = 1 => last_chunk.report = unicode_analysis
        /\ last_chunk.index > 1 =>
               /\ last_chunk.report = ReportNone
               /\ ~last_chunk.invisible_section
        /\ last_chunk.invisible_section =>
               /\ last_chunk.index = 1
               /\ unicode_analysis # ReportNone
               /\ unicode_analysis.total_invisible_count > 0

\* the run was given a report of two invisible characters: window 1 was
\* analyzed with it, and now window 2 is analyzed without a report
C23_Witness ==
    /\ ChunkAnalyzed
    /\ unicode_analysis = ReportDict(2)
    /\ last_chunk.index = 2
    /\ last_chunk.report = ReportNone
    /\ ~last_chunk.invisible_section
    /\ Len(analyzed) = 2

\* the callback's messages of a complete multi-window run of N windows:
\* one per window in index order, then the one before aggregation
WindowMessages(N) ==
    [k \in 1..N |-> [kind |-> "Analysiere Chunk", index |-> k, total |-> N]]

StartMessage == [kind |-> "Analysiere Dokument...", index |-> 0, total |-> 0]

AggregationMessage ==
    [kind |-> "Ergebnisse werden zusammengefuehrt...", index |-> 0, total |-> 0]

IsPrefix(s1, s2) == Len(s1) <= Len(s2) /\ s1 = SubSeq(s2, 1, Len(s1))

CategoryOf(r, name) ==
    IF "text_metrics" \in DOMAIN r /\ name \in DOMAIN r.text_metrics.d
    THEN r.text_metrics.d[name].s
    ELSE "medium"

\* the number of windows of the aggregated list reporting category c
Occurrences(name, c) ==
    Cardinality({k \in 1..Len(ag.input) : CategoryOf(ag.input[k], name) = c})

\* C26: each aggregated text metric is the category with the highest
\* occurrence count over the windows; among categories tied for the highest
\* count it is the first in the order low, medium, high
C26_MetricMajority ==
    (Aggregated /\ ag.input # <<>>) =>
        \A name \in metric_names :
            LET low == Occurrences(name, "low")
                medium == Occurrences(name, "medium")
                high == Occurrences(name, "high")
                value == ag.out.value.text_metrics[name]
            IN  /\ value = "low" <=> (low >= medium /\ low >= high)
                /\ value = "medium" <=> (medium > low /\ medium >= high)
                /\ value = "high" <=> (high > low /\ high > medium)

\* a window reporting high followed by one reporting low has been aggregated
\* to low
C26_Witness ==
    /\ Aggregated
    /\ Len(ag.input) = 2
    /\ \A name \in metric_names :
           /\ CategoryOf(ag.input[1], name) = "high"
           /\ CategoryOf(ag.input[2], name) = "low"
           /\ ag.out.value.text_metrics[name] = "low"

\* the raw object of the validated text has member k
RawHas(k) == \E m \in RawMembers : m.t = "pair" /\ m.k = k

RawValue(k) == (CHOOSE m \in RawMembers : m.t = "pair" /\ m.k = k).v

\* the value the claim gives an optional field the raw object lacks
OptionalDefaults ==
    [reasoning |-> Str(""),
     specific_indicators |-> List(<<>>),
     suspicious_phrases |-> List(<<>>),
     text_metrics |-> Dict([name \in metric_names |-> Str("medium")])]

\* C25: the validated record always has reasoning, indicators,
\* suspicious_phrases and text_metrics: the raw value when the raw object has
\* the field, an empty value (medium for each text metric) when it lacks it
C25_OptionalFieldsDefaulted ==
    Validated =>
        \A k \in DOMAIN OptionalDefaults :
            /\ k \in DOMAIN rv.out.value
            /\ rv.out.value[k] = IF RawHas(k) THEN RawValue(k)
                                 ELSE OptionalDefaults[k]

\* the number of windows the chunker produced for the run whose successful
\* records were aggregated
WindowsProduced == Len(ag.input) + ag.failed

\* C27: in the document record of a multi-window run the windows-analyzed
\* count is the number of windows the chunker produced and the
\* windows-succeeded count is the number of windows that succeeded; the two
\* differ exactly when a window failed
C27_SummaryCounts ==
    (Aggregated /\ ag.input # <<>>) =>
        LET summary == ag.out.value.analysis_summary
        IN  /\ summary.total_chunks_analyzed = WindowsProduced
            /\ summary.successful_chunks = Len(ag.input)
            /\ summary.successful_chunks <= summary.total_chunks_analyzed
            /\ summary.successful_chunks # summary.total_chunks_analyzed
                   <=> ag.failed > 0

\* the smallest and the largest ai_probability of the records handed over
MinAiProb ==
    CHOOSE p \in {InputAiProbs[k] : k \in 1..Len(ag.input)} :
        \A k \in 1..Len(ag.input) : p <= InputAiProbs[k]

MaxAiProb ==
    CHOOSE p \in {InputAiProbs[k] : k \in 1..Len(ag.input)} :
        \A k \in 1..Len(ag.input) : InputAiProbs[k] <= p

\* C28: for a non-empty list of validated successful records the aggregated
\* ai_probability lies between the smallest and the largest per-window
\* ai_probability, human_probability is 1 - ai_probability, confidence_score
\* lies in [0, 1], and is_ai_generated is true exactly when ai_probability
\* exceeds 0.5
C28_AggregateRanges ==
    (Aggregated /\ ag.input # <<>>) =>
        LET d == ag.out.value
            ai == d.ai_probability
            conf == d.confidence_score
        IN  /\ ai.den > 0
            /\ MinAiProb * ai.den <= ai.num
            /\ ai.num <= MaxAiProb * ai.den
            /\ 0 <= MinAiProb
            /\ MaxAiProb <= One
            /\ SameFraction(d.human_probability, One * ai.den - ai.num, ai.den)
            /\ conf.den > 0
            /\ 0 <= conf.num
            /\ conf.num <= One * conf.den
            /\ d.is_ai_generated = Bool(2 * ai.num > One * ai.den)

\* records aggregated to an ai_probability of exactly 0.5 gave a document
\* record that is not AI generated
C28_Witness ==
    /\ Aggregated
    /\ Len(ag.input) = 2
    /\ InputAiProbs = <<100, 900>>
    /\ InputConfidences = <<800, 800>>
    /\ RatIs(ag.out.value.ai_probability, One \div 2)
    /\ ag.out.value.is_ai_generated = Bool(FALSE)

\* ------------------------------------------------------------------------
\* Properties of the window (checked under SpecGui)
\* ------------------------------------------------------------------------

\* C29: at most one analysis worker thread is alive at any time, and the
\* thread the window refers to is the one alive
C29_OneWorkerAlive ==
    /\ Cardinality(AliveThreads) <= 1
    /\ AliveThreads \subseteq {gui.analysis_thread}

\* after a confirmed reset re-enabled the analyze button during a running
\* analysis, a file was chosen again and a start was refused with the
\* warning; the one worker is still alive
C29_Witness ==
    /\ gui.abandoned
    /\ gui.warned
    /\ gui.analyze_button = "normal"
    /\ gui.pdf_path # ""
    /\ AliveThreads = {1}

\* C30: after a reset confirmed during a running analysis, and until an
\* analysis is started, current_analysis_results stays empty, no results are
\* shown and the export button stays disabled
C30_AbandonedResultsDiscarded ==
    gui.abandoned =>
        /\ ~gui.current_analysis_results.stored
        /\ ~gui.results_shown
        /\ gui.export_button = "disabled"

====
